---- MODULE Spec2Model ----
(***************************************************************************)
(* A model of ubpe_native.utils: the radix tree SSSTree / SSSTreeNode      *)
(* (ssstree.py) and the Logger / Progress pair (logger.py).                *)
(*                                                                         *)
(* A node is the record [key, value, children]; children is the Python     *)
(* list of child nodes, kept as a sequence in list order.  Keys are tuples *)
(* of symbols.  Python's None is the definition None.  The outcome of a    *)
(* call is a pair (exc, ret): the exception raised ("none" when the call   *)
(* returns) and the value returned.                                        *)
(***************************************************************************)
EXTENDS Integers, Sequences, FiniteSets, TLC

\* ---------------------------------------------------------------- bounds
NumSymbols == 2
MaxKeyLen == 3
NumValues == 2
MaxKeys == 3
MaxTotal == 2
MaxInitial == 1
MaxInc == 2
MaxCurrent == 4
MaxTime == 2
MaxWrites == 2

Symbols == 1..NumSymbols
Values == 1..NumValues
Keys == UNION {[1..n -> Symbols] : n \in 1..MaxKeyLen}
\* query sequences: every key, and the empty sequence
Queries == Keys \cup {<< >>}

\* Python's None (payloads are integers >= 1; totals, counts, times and
\* lengths are integers >= 0)
None == -1

VARIABLES
    tree,        \* SSSTree.children: the list of the root's child nodes
    inserted,    \* history: key -> the value of the first insertion of that key
    storedRets,  \* history: the outcomes of the insertions that stored their value
    last         \* the last call on the tree and its outcome

treeVars == <<tree, inserted, storedRets, last>>

VARIABLES
    hasLogger,   \* Progress._logger is not None: the Progress is a Logger's
    quiet,       \* Logger.quiet
    file,        \* the writes made to Logger._file, in order
    stdout,      \* the lines printed by a Progress that has no logger
    progress,    \* the fields of the Progress
    now,         \* the clock read by time.time()
    loop,        \* history: where a `for ... in p(total=..)` loop stands
    iterated,    \* history: the items yielded since p(total=.., initial=..),
                 \* while nothing but iter(p) and next(p) was called on p
    plast        \* the last call on the Logger or the Progress and its outcome

logVars == <<hasLogger, quiet, file, stdout, progress, now, loop, iterated, plast>>

vars == <<tree, inserted, storedRets, last,
          hasLogger, quiet, file, stdout, progress, now, loop, iterated, plast>>

\* ------------------------------------------------------------- sequences
Min(a, b) == IF a < b THEN a ELSE b

\* Python's s[:n]
Take(s, n) == SubSeq(s, 1, Min(n, Len(s)))

\* Python's s[n:]
Drop(s, n) == SubSeq(s, n + 1, Len(s))

IsPrefix(p, s) == Len(p) <= Len(s) /\ SubSeq(s, 1, Len(p)) = p

\* ------------------------------------------------------------ SSSTreeNode
SSSTreeNode(key, value) == [key |-> key, value |-> value, children |-> << >>]

\* the loop of SSSTreeNode.__add__: the length of the common prefix
RECURSIVE CommonLen(_, _, _)
CommonLen(a, b, i) ==
    IF i < Min(Len(a), Len(b)) /\ a[i + 1] = b[i + 1]
    THEN CommonLen(a, b, i + 1)
    ELSE i

\* `for child in children: if child.key[0] == sym`: the index of the first
\* child whose key starts with sym, 0 when there is none
RECURSIVE FindChildFrom(_, _, _)
FindChildFrom(children, sym, j) ==
    IF j > Len(children) THEN 0
    ELSE IF children[j].key[1] = sym THEN j
    ELSE FindChildFrom(children, sym, j + 1)

FindChild(children, sym) == FindChildFrom(children, sym, 1)

EqualKeysOverwrite(self, value) ==
    [node |-> [self EXCEPT !.value = value], ret |-> "True"]

\* equal keys: the payload is set only when it is None
EqualKeys(self, value) ==
    LET v == IF self.value = None THEN value ELSE self.value
    IN  [node |-> [self EXCEPT !.value = v],
         ret |-> IF v = value THEN "True" ELSE "False"]

SplitPrefixDropsPayload(self, i, key, value) ==
    [key |-> key, value |-> value,
     children |-> << [key |-> Drop(self.key, i), value |-> None,
                      children |-> self.children] >>]

SplitPrefixWholeKey(self, i, key, value) ==
    LET split == [key |-> self.key, value |-> self.value,
                  children |-> self.children]
    IN  [key |-> key, value |-> value, children |-> <<split>>]

SplitPrefixLosesChildren(self, i, key, value) ==
    LET split == [key |-> Drop(self.key, i), value |-> self.value,
                  children |-> << >>]
    IN  [key |-> key, value |-> value, children |-> <<split>>]

\* the new key is a strict prefix of the node's key: split vertex in two
SplitPrefix(self, i, key, value) ==
    LET split == [key |-> Drop(self.key, i), value |-> self.value,
                  children |-> self.children]
    IN  [key |-> key, value |-> value, children |-> <<split>>]

SplitCommonKeepsPayload(self, i, key, value) ==
    LET split == [key |-> Drop(self.key, i), value |-> self.value,
                  children |-> self.children]
    IN  [key |-> Take(self.key, i), value |-> self.value,
         children |-> <<split, SSSTreeNode(key, value)>>]

\* the keys share their first i elements only: a splice with two children
\* (key is the rest of the new key)
SplitCommon(self, i, key, value) ==
    LET split == [key |-> Drop(self.key, i), value |-> self.value,
                  children |-> self.children]
    IN  [key |-> Take(self.key, i), value |-> None,
         children |-> <<split, SSSTreeNode(key, value)>>]

\* SSSTreeNode.__add__: the node after the call and the value returned
RECURSIVE NodeAdd(_, _, _)
NodeAdd(self, key, value) ==
    LET i == CommonLen(self.key, key, 0) IN
    IF i = Len(key)
    THEN IF i = Len(self.key)
         THEN EqualKeys(self, value)
         ELSE [node |-> SplitPrefix(self, i, key, value), ret |-> "None"]
    ELSE LET rest == Drop(key, i) IN
         IF i = Len(self.key)
         THEN LET j == FindChild(self.children, rest[1]) IN
              IF j # 0
              THEN [node |-> [self EXCEPT !.children[j] =
                                  NodeAdd(self.children[j], rest, value).node],
                    ret |-> "None"]
              ELSE [node |-> [self EXCEPT !.children =
                                  Append(self.children, SSSTreeNode(rest, value))],
                    ret |-> "None"]
         ELSE [node |-> SplitCommon(self, i, rest, value), ret |-> "None"]

\* SSSTreeNode.__getitem__
RECURSIVE NodeGetitem(_, _)
NodeGetitem(self, key) ==
    IF key = self.key THEN self.value
    ELSE IF Take(key, Len(self.key)) = self.key
    THEN LET rest == Drop(key, Len(self.key))
             j == FindChild(self.children, rest[1])
         IN  IF j # 0 THEN NodeGetitem(self.children[j], rest) ELSE None
    ELSE None

\* SSSTreeNode.__call__ (start counts from 0, as in the code): the stack
\* after the call.  The loop over the children has no break: every child
\* whose key starts with key[start] is called, on the same stack.
RECURSIVE NodeCall(_, _, _, _)
RECURSIVE NodeCallChildren(_, _, _, _, _)
NodeCall(self, key, stack, start) ==
    IF start + Len(self.key) > Len(key) THEN stack
    ELSE IF SubSeq(key, start + 1, start + Len(self.key)) = self.key
    THEN LET stack1 == Append(stack, <<self.key, self.value>>)
             start1 == start + Len(self.key)
         IN  IF start1 = Len(key) THEN stack1
             ELSE NodeCallChildren(self.children, 1, key, stack1, start1)
    ELSE stack

NodeCallChildren(children, j, key, stack, start) ==
    IF j > Len(children) THEN stack
    ELSE IF children[j].key[1] = key[start + 1]
    THEN NodeCallChildren(children, j + 1, key,
                          NodeCall(children[j], key, stack, start), start)
    ELSE NodeCallChildren(children, j + 1, key, stack, start)

\* ---------------------------------------------------------------- SSSTree
TreeAddAlwaysAppend(children, key, value) ==
    [children |-> Append(children, SSSTreeNode(key, value)), ret |-> "True"]

TreeAddFirstChild(children, key, value) ==
    IF Len(children) # 0
    THEN [children |-> [children EXCEPT ![1] = NodeAdd(children[1], key, value).node],
          ret |-> "True"]
    ELSE [children |-> Append(children, SSSTreeNode(key, value)), ret |-> "True"]

\* SSSTree.__add__: the children after the call and the value returned.
\* The value returned by the node's __add__ is dropped (`_ = ...`).
TreeAdd(children, key, value) ==
    LET i == FindChild(children, key[1]) IN
    IF i # 0
    THEN [children |-> [children EXCEPT ![i] = NodeAdd(children[i], key, value).node],
          ret |-> "True"]
    ELSE [children |-> Append(children, SSSTreeNode(key, value)), ret |-> "True"]

\* SSSTree.__getitem__: key[0] is read for the first child
TreeGetitem(children, key) ==
    IF Len(children) = 0 THEN [exc |-> "none", ret |-> None]
    ELSE IF Len(key) = 0 THEN [exc |-> "IndexError", ret |-> None]
    ELSE LET i == FindChild(children, key[1]) IN
         IF i # 0
         THEN [exc |-> "none", ret |-> NodeGetitem(children[i], key)]
         ELSE [exc |-> "none", ret |-> None]

\* the loop of SSSTree.__call__ over a non-empty stack: its first pass reads
\* stack[j], and no j is bound in the function, the module or the builtins
Aggregate(stack) ==
    IF Len(stack) = 0 THEN [exc |-> "none", ret |-> << >>]
    ELSE [exc |-> "NameError", ret |-> << >>]

\* SSSTree.__call__: key[start] is read for the first child
TreeCall(children, key, start) ==
    IF Len(children) = 0 THEN [exc |-> "none", ret |-> << >>]
    ELSE IF start >= Len(key) THEN [exc |-> "IndexError", ret |-> << >>]
    ELSE LET i == FindChild(children, key[start + 1]) IN
         IF i = 0 THEN [exc |-> "none", ret |-> << >>]
         ELSE LET stack == NodeCall(children[i], key, << >>, start) IN
              IF Len(stack) = 0 THEN [exc |-> "none", ret |-> << >>]
              ELSE Aggregate(stack)

\* ------------------------------------------------------------ tree actions
\* SSSTree(): no children
TreeNew ==
    /\ tree = << >>
    /\ inserted = << >>
    /\ storedRets = {}
    /\ last = [op |-> "init", key |-> << >>, value |-> None,
               exc |-> "none", ret |-> None]

\* tree + (key, value), for a non-empty key and a non-None value
Add(key, value) ==
    LET r == TreeAdd(tree, key, value)
        isNew == key \notin DOMAIN inserted
    IN  /\ isNew => Cardinality(DOMAIN inserted) < MaxKeys
        /\ tree' = r.children
        /\ inserted' = IF isNew THEN (key :> value) @@ inserted ELSE inserted
        /\ storedRets' = IF isNew THEN storedRets \cup {r.ret} ELSE storedRets
        /\ last' = [op |-> "add", key |-> key, value |-> value,
                    exc |-> "none", ret |-> r.ret]
        /\ UNCHANGED logVars

\* tree[key]
Getitem(key) ==
    LET r == TreeGetitem(tree, key)
    IN  /\ last' = [op |-> "getitem", key |-> key, value |-> None,
                    exc |-> r.exc, ret |-> r.ret]
        /\ UNCHANGED <<tree, inserted, storedRets, logVars>>

\* tree(key)
Call(key) ==
    LET r == TreeCall(tree, key, 0)
    IN  /\ last' = [op |-> "call", key |-> key, value |-> None,
                    exc |-> r.exc, ret |-> r.ret]
        /\ UNCHANGED <<tree, inserted, storedRets, logVars>>

TreeNext ==
    \/ \E key \in Keys, value \in Values : Add(key, value)
    \/ \E key \in Queries : Getitem(key)
    \/ \E key \in Queries : Call(key)

\* ------------------------------------------------------- numbers and text
Max(a, b) == IF a > b THEN a ELSE b

\* Progress.__init__: precision defaults to 3, unit to "item" (4 characters)
Precision == 3
UnitLen == 4

\* the number of characters of str(n), n >= 0
RECURSIVE Digits(_)
Digits(n) == IF n < 10 THEN 1 ELSE 1 + Digits(n \div 10)

RECURSIVE GCD(_, _)
GCD(a, b) == IF b = 0 THEN a ELSE GCD(b, a % b)

\* a float is kept as the exact fraction <<numerator, denominator>> in lowest
\* terms; the rate of a Progress that is not active is None
NoRate == <<0, 0>>

\* num / den, den > 0, num >= 0
Rate(num, den) == LET g == GCD(num, den) IN <<num \div g, den \div g>>

\* format(a / b, ".0f") as an integer: round half to even (a >= 0, b > 0)
RoundHalfEven(a, b) ==
    LET q == a \div b
        r == a % b
    IN  IF 2 * r < b THEN q
        ELSE IF 2 * r > b THEN q + 1
        ELSE IF q % 2 = 0 THEN q ELSE q + 1

\* estimated = elapsed if left < 0.0 else elapsed + left, as a fraction, with
\* left = (total - current) / rate if rate > 0.0 else 0.0
Estimated(pr) ==
    LET elapsed == pr.current_time - pr.initial_time
        n == pr.rate[1]
        d == pr.rate[2]
    IN  IF n > 0 /\ pr.total - pr.current >= 0
        THEN <<elapsed * n + (pr.total - pr.current) * d, n>>
        ELSE <<elapsed, 1>>

\* len(time_str); pad is the least width of the seconds (2 for `:02.0f`,
\* 1 for `:.0f`)
TimeStrLen(pr, pad) ==
    LET elapsed == pr.current_time - pr.initial_time
        est == Estimated(pr)
    IN  Digits(elapsed \div 60) + 1 + Max(pad, Digits(elapsed % 60)) + 1
        + Digits(est[1] \div (60 * est[2])) + 1
        + Max(pad, Digits(RoundHalfEven(est[1] % (60 * est[2]), est[2])))

\* len of "{rate:.{precision}f} {unit}s/sec]" when rate >= 1.0 or rate == 0.0,
\* of "{1 / rate:.{precision}f} sec/{unit}]" otherwise (the rounding of the
\* last decimal never carries into the integer part within the bounds)
RateStrLen(pr) ==
    LET n == pr.rate[1]
        d == pr.rate[2]
    IN  IF n >= d \/ n = 0
        THEN Digits(n \div d) + 1 + Precision + 1 + UnitLen + 6
        ELSE Digits(d \div n) + 1 + Precision + 5 + UnitLen + 1

\* len of "{current} / {total} [{time_str}, <rate>"
BodyLen(pr, pad) ==
    Digits(pr.current) + 3 + Digits(pr.total) + 2 + TimeStrLen(pr, pad) + 2
    + RateStrLen(pr)

\* what a write or a print puts out: its kind, the text of a message, and
\* the number of characters of a progress line
Entry(kind, text, width) == [kind |-> kind, text |-> text, width |-> width]

\* ---------------------------------------------------------------- Progress
\* the class attributes and Progress.__init__
NewProgress ==
    [is_running |-> FALSE, is_active |-> FALSE,
     total |-> None, initial |-> None, current |-> None,
     initial_time |-> None, current_time |-> None,
     rate |-> NoRate, old_length |-> None]

\* time.time(): the clock does not go back, and may not have moved
Clock == {t \in {now, now + 1} : t <= MaxTime}

\* Progress._reset, once _is_running is False
ResetKeepsActive(pr) ==
    [pr EXCEPT !.total = None, !.initial = None, !.current = None,
               !.initial_time = None, !.current_time = None,
               !.rate = NoRate, !.old_length = None]

Reset(pr) ==
    [pr EXCEPT !.total = None, !.initial = None, !.current = None,
               !.initial_time = None, !.current_time = None,
               !.rate = NoRate, !.old_length = None, !.is_active = FALSE]

SetRunningForgotten(pr) == pr

\* self._is_running = True
SetRunning(pr) == [pr EXCEPT !.is_running = TRUE]

\* ------------------------------------------------------------------ Logger
\* Logger.log_progress past the quiet test: the outcome and the file
LogProgressLoud(pr, f) ==
    IF \/ pr.current_time = None \/ pr.initial_time = None
       \/ pr.total = None \/ pr.current = None \/ pr.rate = NoRate
    THEN [exc |-> "TypeError", ret |-> None, file |-> f]
    ELSE LET len == 13 + BodyLen(pr, 2)
             width == IF pr.old_length = None THEN len
                      ELSE Max(len, pr.old_length)
             f1 == Append(f, Entry("PROGRESS", "", width))
             f2 == IF pr.current >= pr.total
                   THEN Append(f1, Entry("NL", "", 1)) ELSE f1
         IN  [exc |-> "none", ret |-> len, file |-> f2]

LogProgressIgnoresQuiet(pr, f) == LogProgressLoud(pr, f)

\* Logger.log_progress
LogProgress(pr, f) ==
    IF quiet THEN [exc |-> "none", ret |-> None, file |-> f]
    ELSE LogProgressLoud(pr, f)

\* Logger.info / debug / warn / error: the outcome and the file
LogMessage(level, msg, f) ==
    IF quiet THEN [exc |-> "none", file |-> f]
    ELSE IF msg = "NotAStr" THEN [exc |-> "Exception:msg", file |-> f]
    ELSE [exc |-> "none", file |-> Append(f, Entry(level, msg, 0))]

Messages == {"text", "NotAStr"}

\* room left in the modelled outputs
Room == Len(file) < MaxWrites /\ Len(stdout) < MaxWrites

\* `if self._logger is not None: self._old_length = self._logger.log_progress()
\*  else: print(...)` of __next__ and update (every field is set there)
Report(pr, f, out) ==
    IF hasLogger
    THEN LET r == LogProgress(pr, f)
         IN  [pr |-> [pr EXCEPT !.old_length = r.ret], file |-> r.file,
              stdout |-> out]
    ELSE [pr |-> pr, file |-> f,
          stdout |-> Append(out, Entry("PRINT", "", BodyLen(pr, 1)))]

\* the same block of run, which prints "{current} / {total} [{rate} {unit}s/sec]"
ReportRun(pr, f, out) ==
    IF hasLogger
    THEN LET r == LogProgress(pr, f)
         IN  [pr |-> [pr EXCEPT !.old_length = r.ret], file |-> r.file,
              stdout |-> out]
    ELSE [pr |-> pr, file |-> f,
          stdout |-> Append(out, Entry("PRINT", "",
                       Digits(pr.current) + 3 + Digits(pr.total) + 2
                       + Digits(pr.rate[1] \div pr.rate[2]) + 1 + Precision
                       + 1 + UnitLen + 6))]

\* no loop made of iter(p) and next(p) alone is under way
NoIteration == [pure |-> FALSE, total |-> None, initial |-> None, items |-> << >>]

Outcome(op, exc, ret, self) == [op |-> op, exc |-> exc, ret |-> ret, self |-> self]

\* -------------------------------------------------- Logger, Progress: actions
LoggerNew(h, q) ==
    /\ hasLogger = h
    /\ quiet = q
    /\ file = << >>
    /\ stdout = << >>
    /\ progress = NewProgress
    /\ now = 0
    /\ loop = "none"
    /\ iterated = NoIteration
    /\ plast = Outcome("init", "none", None, FALSE)

\* a new tree, beside a Logger that is not used
TreeInit == TreeNew /\ LoggerNew(TRUE, FALSE)

\* Progress(...) alone, Logger(quiet=False) or Logger(quiet=True), beside a
\* tree that is not used
LoggerInit ==
    \E h \in BOOLEAN, q \in BOOLEAN : (q => h) /\ LoggerNew(h, q) /\ TreeNew

\* logger.info(msg) / debug / warn / error
Message(level, op, msg) ==
    LET r == LogMessage(level, msg, file)
    IN  /\ hasLogger
        /\ r.file # file => Room
        /\ file' = r.file
        /\ plast' = Outcome(op, r.exc, None, FALSE)
        /\ UNCHANGED <<treeVars, hasLogger, quiet, stdout, progress, now, loop, iterated>>

Info(msg) == Message("INFO", "info", msg)
Debug(msg) == Message("DEBUG", "debug", msg)
Warn(msg) == Message("WARN", "warn", msg)
Error(msg) == Message("ERROR", "error", msg)

\* logger.log_progress() called by the user
LogProgressCall ==
    LET r == LogProgress(progress, file)
    IN  /\ hasLogger
        /\ r.file # file => Room
        /\ file' = r.file
        /\ plast' = Outcome("log_progress", r.exc, r.ret, FALSE)
        /\ UNCHANGED <<treeVars, hasLogger, quiet, stdout, progress, now, loop, iterated>>

\* p(total=total, initial=initial)
ProgressCall(total, initial) ==
    IF progress.is_running
    THEN /\ plast' = Outcome("call", "Exception:already running", None, FALSE)
         /\ loop' = "none"
         /\ iterated' = NoIteration
         /\ UNCHANGED <<treeVars, hasLogger, quiet, file, stdout, progress, now>>
    ELSE \E t \in Clock :
         /\ progress' = [progress EXCEPT
                !.total = total, !.initial = initial, !.current = initial,
                !.initial_time = t, !.current_time = t, !.rate = <<0, 1>>,
                !.old_length = None, !.is_active = TRUE]
         /\ now' = t
         /\ plast' = Outcome("call", "none", None, TRUE)
         /\ loop' = "called"
         /\ iterated' = [pure |-> TRUE, total |-> total, initial |-> initial,
                          items |-> << >>]
         /\ UNCHANGED <<treeVars, hasLogger, quiet, file, stdout>>

\* p.run()
Run ==
    IF progress.is_running
    THEN /\ plast' = Outcome("run", "Exception:already running", None, FALSE)
         /\ loop' = "none"
         /\ iterated' = NoIteration
         /\ UNCHANGED <<treeVars, hasLogger, quiet, file, stdout, progress, now>>
    ELSE IF ~progress.is_active
    THEN /\ plast' = Outcome("run", "Exception:not active", None, FALSE)
         /\ loop' = "none"
         /\ iterated' = NoIteration
         /\ UNCHANGED <<treeVars, hasLogger, quiet, file, stdout, progress, now>>
    ELSE LET r == ReportRun(SetRunning(progress), file, stdout)
         IN  /\ (r.file # file \/ r.stdout # stdout) => Room
             /\ progress' = r.pr
             /\ file' = r.file
             /\ stdout' = r.stdout
             /\ plast' = Outcome("run", "none", None, FALSE)
             /\ loop' = "none"
             /\ iterated' = NoIteration
             /\ UNCHANGED <<treeVars, hasLogger, quiet, now>>

\* p.stop()
Stop ==
    /\ progress' = Reset([progress EXCEPT !.is_running = FALSE])
    /\ plast' = Outcome("stop", "none", None, FALSE)
    /\ loop' = "none"
    /\ iterated' = NoIteration
    /\ UNCHANGED <<treeVars, hasLogger, quiet, file, stdout, now>>

IterMarksRunningFirst ==
    IF progress.is_running
    THEN /\ plast' = Outcome("iter", "Exception:already running", None, FALSE)
         /\ loop' = "none"
         /\ iterated' = NoIteration
         /\ UNCHANGED <<treeVars, hasLogger, quiet, file, stdout, progress, now>>
    ELSE IF ~progress.is_active
    THEN /\ progress' = SetRunning(progress)
         /\ plast' = Outcome("iter", "Exception:not active", None, FALSE)
         /\ loop' = "none"
         /\ iterated' = NoIteration
         /\ UNCHANGED <<treeVars, hasLogger, quiet, file, stdout, now>>
    ELSE /\ progress' = SetRunning(progress)
         /\ plast' = Outcome("iter", "none", None, TRUE)
         /\ loop' = IF loop = "called" THEN "iterating" ELSE "none"
         /\ iterated' = IF loop = "called" THEN iterated ELSE NoIteration
         /\ UNCHANGED <<treeVars, hasLogger, quiet, file, stdout, now>>

\* iter(p)
Iter ==
    IF progress.is_running
    THEN /\ plast' = Outcome("iter", "Exception:already running", None, FALSE)
         /\ loop' = "none"
         /\ iterated' = NoIteration
         /\ UNCHANGED <<treeVars, hasLogger, quiet, file, stdout, progress, now>>
    ELSE IF ~progress.is_active
    THEN /\ plast' = Outcome("iter", "Exception:not active", None, FALSE)
         /\ loop' = "none"
         /\ iterated' = NoIteration
         /\ UNCHANGED <<treeVars, hasLogger, quiet, file, stdout, progress, now>>
    ELSE /\ progress' = SetRunning(progress)
         /\ plast' = Outcome("iter", "none", None, TRUE)
         /\ loop' = IF loop = "called" THEN "iterating" ELSE "none"
         /\ iterated' = IF loop = "called" THEN iterated ELSE NoIteration
         /\ UNCHANGED <<treeVars, hasLogger, quiet, file, stdout, now>>

\* the common part of __next__ and update once the count is to be reported:
\* the time is read, the rate is computed (elapsed may be 0), the line is put
\* out; bump is what __next__ adds to the count afterwards
Measure(op, pr, bump, ret) ==
    \E t \in Clock :
        LET elapsed == t - pr.initial_time
            p1 == [pr EXCEPT !.current_time = t]
        IN  /\ now' = t
            /\ IF elapsed = 0
               THEN /\ progress' = p1
                    /\ plast' = Outcome(op, "ZeroDivisionError", None, FALSE)
                    /\ loop' = "none"
                    /\ UNCHANGED <<file, stdout>>
               ELSE LET p2 == [p1 EXCEPT !.rate = Rate(pr.current - pr.initial, elapsed)]
                        r == Report(p2, file, stdout)
                    IN  /\ (r.file # file \/ r.stdout # stdout) => Room
                        /\ progress' = [r.pr EXCEPT !.current = @ + bump]
                        /\ file' = r.file
                        /\ stdout' = r.stdout
                        /\ plast' = Outcome(op, "none", ret, FALSE)
                        /\ loop' = IF loop = "iterating" THEN loop ELSE "none"
            /\ UNCHANGED <<treeVars, hasLogger, quiet>>

\* next(p)
Next ==
    IF progress.current = None \/ progress.total = None
    THEN /\ plast' = Outcome("next", "TypeError", None, FALSE)
         /\ loop' = "none"
         /\ iterated' = NoIteration
         /\ UNCHANGED <<treeVars, hasLogger, quiet, file, stdout, progress, now>>
    ELSE IF progress.current > progress.total
    THEN /\ progress' = Reset([progress EXCEPT !.is_running = FALSE])
         /\ plast' = Outcome("next", "StopIteration", None, FALSE)
         /\ loop' = "none"
         /\ iterated' = IF iterated.pure /\ loop = "iterating"
                         THEN iterated ELSE NoIteration
         /\ UNCHANGED <<treeVars, hasLogger, quiet, file, stdout, now>>
    ELSE /\ Measure("next", progress, 1, progress.current)
         /\ iterated' = IF iterated.pure /\ loop = "iterating"
                         THEN IF plast'.exc = "none"
                              THEN [iterated EXCEPT !.items = Append(@, plast'.ret)]
                              ELSE iterated
                         ELSE NoIteration

\* p.update(inc)
Update(inc) ==
    IF ~progress.is_running
    THEN /\ plast' = Outcome("update", "Exception:not running", None, FALSE)
         /\ loop' = "none"
         /\ iterated' = NoIteration
         /\ UNCHANGED <<treeVars, hasLogger, quiet, file, stdout, progress, now>>
    ELSE IF progress.current = None
    THEN /\ plast' = Outcome("update", "TypeError", None, FALSE)
         /\ loop' = "none"
         /\ iterated' = NoIteration
         /\ UNCHANGED <<treeVars, hasLogger, quiet, file, stdout, progress, now>>
    ELSE /\ progress.current + inc <= MaxCurrent
         /\ Measure("update", [progress EXCEPT !.current = @ + inc], 0, None)
         /\ iterated' = NoIteration

\* p.get_current()
GetCurrent ==
    /\ plast' = IF ~progress.is_active
                THEN Outcome("get_current", "Exception:not active", None, FALSE)
                ELSE Outcome("get_current", "none", progress.current, FALSE)
    /\ UNCHANGED <<treeVars, hasLogger, quiet, file, stdout, progress, now, loop, iterated>>

LoggerNext ==
    \/ \E msg \in Messages : Info(msg)
    \/ \E msg \in Messages : Debug(msg)
    \/ \E msg \in Messages : Warn(msg)
    \/ \E msg \in Messages : Error(msg)
    \/ LogProgressCall
    \/ \E total \in 0..MaxTotal, initial \in 0..MaxInitial : ProgressCall(total, initial)
    \/ Run
    \/ Stop
    \/ Iter
    \/ Next
    \/ \E inc \in 1..MaxInc : Update(inc)
    \/ GetCurrent

\* ------------------------------------------------------------ specifications
\* the tree alone, beside an idle Logger
SpecTree == TreeInit /\ [][TreeNext]_vars

\* insertions alone: the trees every order of insertions builds
InsertNext == \E key \in Keys, value \in Values : Add(key, value)

SpecInsert == TreeInit /\ [][InsertNext]_vars

\* the Logger and its Progress alone, beside an empty tree
SpecLogger == LoggerInit /\ [][LoggerNext]_vars

\* ------------------------------------------------- properties of the tree
\* every node of the subtree of self
RECURSIVE NodesOf(_)
NodesOf(self) ==
    {self} \cup UNION {NodesOf(self.children[j]) : j \in 1..Len(self.children)}

TreeNodes == UNION {NodesOf(tree[j]) : j \in 1..Len(tree)}

\* the nodes that are not children of the root
DeepNodes ==
    UNION {NodesOf(tree[j].children[c]) :
             <<j, c>> \in {<<x, y>> \in (1..Len(tree)) \X (1..NumSymbols + 1) :
                             y <= Len(tree[x].children)}}

DistinctFirst(children) ==
    \A a, b \in 1..Len(children) :
        a # b => children[a].key[1] # children[b].key[1]

\* the number of nodes whose root-to-node key is k and whose payload is set
RECURSIVE CountStored(_, _, _)
RECURSIVE CountStoredIn(_, _, _, _)
CountStored(self, prefix, k) ==
    LET path == prefix \o self.key
    IN  (IF path = k /\ self.value # None THEN 1 ELSE 0)
        + CountStoredIn(self.children, 1, path, k)

CountStoredIn(children, j, prefix, k) ==
    IF j > Len(children) THEN 0
    ELSE CountStored(children[j], prefix, k)
         + CountStoredIn(children, j + 1, prefix, k)

\* the root-to-node keys of the nodes whose payload is None
RECURSIVE SplicePaths(_, _)
SplicePaths(self, prefix) ==
    LET path == prefix \o self.key
    IN  (IF self.value = None THEN {path} ELSE {})
        \cup UNION {SplicePaths(self.children[j], path) :
                      j \in 1..Len(self.children)}

TreeSplicePaths == UNION {SplicePaths(tree[j], << >>) : j \in 1..Len(tree)}

\* the entries (len(k), v) whose key k is a prefix of s, by ascending length
RECURSIVE PrefixEntries(_, _)
PrefixEntries(s, n) ==
    IF n = 0 THEN << >>
    ELSE IF Take(s, n) \in DOMAIN inserted
    THEN Append(PrefixEntries(s, n - 1), <<n, inserted[Take(s, n)]>>)
    ELSE PrefixEntries(s, n - 1)

LastIsDuplicate ==
    /\ last.op = "add"
    /\ last.key \in DOMAIN inserted
    /\ inserted[last.key] # last.value

\* C1: a trace of a non-empty sequence returns exactly the pairs (len(k), v)
\* of the stored entries whose key is a prefix of it, by ascending length.
C1_TraceCorrect ==
    (last.op = "call" /\ Len(last.key) > 0)
        => /\ last.exc = "none"
           /\ last.ret = PrefixEntries(last.key, Len(last.key))

\* C2: the children of the root and of every node have pairwise distinct
\* first key symbols.
C2_DistinctFirstSymbols ==
    /\ DistinctFirst(tree)
    /\ \A n \in TreeNodes : DistinctFirst(n.children)

C2_Witness ==
    /\ last.op = "add"
    /\ Len(tree) >= 2
    /\ \E n \in TreeNodes : Len(n.children) >= 2

\* C3: tree[k] is the value of the first insertion of k for an inserted key
\* and None for every other non-empty key, and each inserted key is stored
\* at exactly one node.
C3_LookupExact ==
    /\ (last.op = "getitem" /\ Len(last.key) > 0)
          => /\ last.exc = "none"
             /\ last.ret = IF last.key \in DOMAIN inserted
                           THEN inserted[last.key] ELSE None
    /\ \A k \in DOMAIN inserted : CountStoredIn(tree, 1, << >>, k) = 1

\* a lookup of the key of a splice node
C3_Witness ==
    /\ last.op = "getitem"
    /\ last.key \in TreeSplicePaths
    /\ last.ret = None
    /\ \E k \in DOMAIN inserted : k # last.key /\ IsPrefix(last.key, k)

\* C4: the outcome of an insertion of a key that already carries a different
\* payload differs from the outcome of every insertion that stored its value.
C4_DuplicateReported ==
    LastIsDuplicate => last.ret \notin storedRets

\* C5: an insertion (k, v2) into a tree where k holds v1, v1 # v2, leaves
\* every node as it was, and tree[k] is still v1.
C5_DuplicateKeepsTree ==
    [][LET k == last'.key
           v1 == TreeGetitem(tree, k).ret
       IN  (last'.op = "add" /\ v1 # None /\ v1 # last'.value)
              => /\ tree' = tree
                 /\ TreeGetitem(tree', k).ret = v1]_treeVars

\* a duplicate found below a child of the root
C5_Witness ==
    /\ LastIsDuplicate
    /\ \E n \in DeepNodes : n.value = inserted[last.key]
    /\ \A j \in 1..Len(tree) : tree[j].key # last.key

\* C6: a lookup of a key that is not stored returns None, a trace of a
\* sequence that no stored key prefixes returns the empty list, and neither
\* raises, the empty sequence included.
C6_MissIsAValue ==
    /\ (last.op = "getitem" /\ last.key \notin DOMAIN inserted)
          => (last.exc = "none" /\ last.ret = None)
    /\ (last.op = "call" /\ \A k \in DOMAIN inserted : ~IsPrefix(k, last.key))
          => (last.exc = "none" /\ last.ret = << >>)

\* C7: every node has a non-empty key fragment.
C7_NonEmptyKeys == \A n \in TreeNodes : Len(n.key) > 0

\* a splice (common-prefix split) and a node with one child
C7_Witness ==
    /\ last.op = "add"
    /\ \E n \in TreeNodes : n.value = None /\ Len(n.children) = 2
    /\ \E n \in TreeNodes : n.value # None /\ Len(n.children) = 1

\* C8: a node whose payload is None has at least two children, and every
\* leaf carries a payload.
C8_NoneOnlyOnSplices ==
    \A n \in TreeNodes :
        /\ n.value = None => Len(n.children) >= 2
        /\ Len(n.children) = 0 => n.value # None

\* a splice that was split again by a shorter key
C8_Witness ==
    /\ last.op = "add"
    /\ \E n \in DeepNodes : n.value = None /\ Len(n.children) >= 2

\* ------------------------------------ properties of the Logger and Progress
\* C9: a Logger constructed with quiet=True never writes to its file, whatever
\* is called on it and on its Progress.
C9_QuietWritesNothing == (hasLogger /\ quiet) => file = << >>

\* an update inside a running loop of a quiet Logger's Progress
C9_Witness ==
    /\ hasLogger /\ quiet
    /\ plast.op = "update" /\ plast.exc = "none"
    /\ progress.is_running
    /\ progress.current > progress.initial

\* C10: after p(total=T, initial=I), iter(p) succeeds with no run() call and
\* leaves p running, p stays running while the loop goes on, and no update()
\* made inside the loop is refused as "not running".
C10_LoopStartsProgress ==
    [][/\ (loop = "called" /\ plast'.op = "iter")
            => (plast'.exc = "none" /\ plast'.self /\ progress'.is_running)
       /\ loop' = "iterating" => (progress'.is_running /\ progress'.is_active)
       /\ (loop = "iterating" /\ plast'.op = "update")
            => (plast'.exc # "Exception:not running" /\ progress'.is_running)
      ]_vars

\* an update made after the loop yielded an item
C10_Witness ==
    /\ loop = "iterating"
    /\ plast.op = "update" /\ plast.exc = "none"
    /\ progress.current >= progress.initial + 2

\* C11: in every state reached by any sequence of calls on a Progress, failed
\* calls included, a running meter is active, and the meter is active exactly
\* when its total, initial and current counts are all set.
C11_RunningImpliesActive ==
    /\ progress.is_running => progress.is_active
    /\ progress.is_active <=> (/\ progress.total # None
                               /\ progress.initial # None
                               /\ progress.current # None)

\* a call refused by a running meter, which stays running and active
C11_Witness ==
    /\ plast.exc = "Exception:already running"
    /\ progress.is_running /\ progress.is_active
    /\ progress.current > progress.initial

\* C12: inserting (k, v) changes the lookup result of no other key: for
\* every non-empty key k2 other than k, tree[k2] after the insertion is
\* tree[k2] before it, whichever of the four insertion cases applies.
C12_InsertionFrame ==
    [][last'.op = "add" =>
         \A k2 \in Keys \ {last'.key} :
             TreeGetitem(tree', k2) = TreeGetitem(tree, k2)
      ]_treeVars

\* an insertion below a node made for a partial common prefix, a third key
\* being stored beside it
C12_Witness ==
    /\ last.op = "add"
    /\ Cardinality(DOMAIN inserted) = MaxKeys
    /\ \E p \in TreeSplicePaths :
           /\ IsPrefix(p, last.key) /\ p # last.key
           /\ TreeGetitem(tree, last.key).ret = last.value
    /\ \E k2 \in DOMAIN inserted :
           k2 # last.key /\ TreeGetitem(tree, k2).ret = inserted[k2]

\* C13: a Progress operation called in a state that does not allow it raises
\* and leaves every field of the Progress unchanged: __call__, run and
\* __iter__ on a running meter raise "already running"; run, __iter__ and
\* get_current on an inactive meter raise "not active"; update on a meter that
\* is not running raises "not running".
C13_RefusedCallsChangeNothing ==
    [][/\ (plast'.op \in {"call", "run", "iter"} /\ progress.is_running)
            => (/\ plast'.exc = "Exception:already running"
                /\ progress' = progress)
       /\ (plast'.op \in {"run", "iter", "get_current"} /\ ~progress.is_active)
            => (/\ plast'.exc = "Exception:not active"
                /\ progress' = progress)
       /\ (plast'.op = "update" /\ ~progress.is_running)
            => (/\ plast'.exc = "Exception:not running"
                /\ progress' = progress)
      ]_vars

\* iter(p) refused on a meter that was used, stopped and so reset
C13_Witness ==
    /\ plast.op = "iter" /\ plast.exc = "Exception:not active"
    /\ ~progress.is_running /\ ~progress.is_active
    /\ now > 0

\* the integers a, a + 1, ..., b in increasing order, none when a > b
Range(a, b) == [i \in 1..Max(0, b - a + 1) |-> a + i - 1]

\* C14: after p(total=T, initial=I) and iter(p), with no update() call in
\* between, repeated __next__ calls yield exactly I, I + 1, ..., T in
\* increasing order (none when I > T), the next call raises StopIteration, and
\* p is then neither running nor active, so that a new p(total=..) call is
\* accepted.
C14_IterationYieldsRange ==
    (iterated.pure /\ plast.op = "next") =>
        LET n == Len(iterated.items)
        IN  \/ /\ plast.exc = "none"
               /\ n >= 1
               /\ plast.ret = iterated.items[n]
               /\ iterated.initial + n - 1 <= iterated.total
               /\ iterated.items
                    = Range(iterated.initial, iterated.initial + n - 1)
            \/ /\ plast.exc = "StopIteration"
               /\ iterated.items = Range(iterated.initial, iterated.total)
               /\ ~progress.is_running /\ ~progress.is_active

\* the nodes of a tree, each as <<root-to-node key, root-to-parent key, key
\* fragment, payload>>, whatever the order of the children
RECURSIVE NodeSet(_, _)
NodeSet(self, prefix) ==
    LET path == prefix \o self.key
    IN  {<<path, prefix, self.key, self.value>>}
        \cup UNION {NodeSet(self.children[j], path) :
                      j \in 1..Len(self.children)}

TreeNodeSet == UNION {NodeSet(tree[j], << >>) : j \in 1..Len(tree)}

RECURSIVE NodeCount(_)
RECURSIVE NodeCountIn(_, _)
NodeCount(self) == 1 + NodeCountIn(self.children, 1)

NodeCountIn(children, j) ==
    IF j > Len(children) THEN 0
    ELSE NodeCount(children[j]) + NodeCountIn(children, j + 1)

\* the longest sequence that is a prefix of both a and b
CommonPrefix(a, b) ==
    LET n == CHOOSE i \in 0..Min(Len(a), Len(b)) :
                 /\ Take(a, i) = Take(b, i)
                 /\ \A m \in (i + 1)..Min(Len(a), Len(b)) : Take(a, m) # Take(b, m)
    IN  Take(a, n)

\* what a set of entries fixes, whatever the order they came in: a node for
\* every key and for every point where two keys part, each under the longest
\* such path that is a strict prefix of its own
CanonPaths ==
    (DOMAIN inserted
      \cup {CommonPrefix(a, b) : a \in DOMAIN inserted, b \in DOMAIN inserted})
    \ {<< >>}

CanonParent(p) ==
    CHOOSE q \in CanonPaths \cup {<< >>} :
        /\ IsPrefix(q, p) /\ q # p
        /\ \A r \in CanonPaths : (IsPrefix(r, p) /\ r # p) => Len(r) <= Len(q)

CanonNodes ==
    {<<p, CanonParent(p), Drop(p, Len(CanonParent(p))),
       IF p \in DOMAIN inserted THEN inserted[p] ELSE None>> : p \in CanonPaths}

\* C15: insertion is order-independent for distinct keys: whatever the order
\* in which a set of distinct non-empty keys with non-None values was inserted,
\* the tree has the same set of nodes (root-to-node keys, key fragments,
\* payloads, parents), the one the set of entries fixes, each node once; hence
\* every lookup gives the same result for every order.
C15_OrderIndependent ==
    /\ TreeNodeSet = CanonNodes
    /\ NodeCountIn(tree, 1) = Cardinality(CanonNodes)
    /\ \A k \in Keys :
          TreeGetitem(tree, k).ret
            = (IF k \in DOMAIN inserted THEN inserted[k] ELSE None)

\* three keys of which the shortest, a strict prefix of the point where the
\* other two part, was inserted last
C15_Witness ==
    /\ last.op = "add"
    /\ Cardinality(DOMAIN inserted) = MaxKeys
    /\ \E p \in TreeSplicePaths : IsPrefix(last.key, p) /\ p # last.key
    /\ TreeGetitem(tree, last.key).ret = last.value

====
